---- MODULE Spec2Model ----
(***************************************************************************)
(* Model of record_market_ladder.py: the streaming loop of                  *)
(* data_collection_pipeline (queue -> stop check -> five-table inserts ->   *)
(* commit), its KeyboardInterrupt handling and its teardown, over an       *)
(* Sqlite database modelled as committed rows plus one open transaction.   *)
(*                                                                         *)
(* Numbers: a price or size of the stream is an integer count of           *)
(* thousandths (2000 is 2.000); a stored price or size is an integer count *)
(* of hundredths, because the INSERT statements print them with {:.2f}.    *)
(* A publish_time is an integer count of microseconds, which is the        *)
(* resolution of datetime and of the "%f" field the inserts print.         *)
(***************************************************************************)
EXTENDS Integers, Sequences, FiniteSets, TLC

\* ------------------------------------------------------------------ bounds
\* Snapshots the producer delivers in one run.
MaxSnapshots == 3
\* Snapshots waiting in output_queue at one time (queue.Queue() is unbounded).
MaxQueue == 2
\* Snapshots the producer delivers in one run of the sink specification.
MaxSinkSnapshots == 2

\* Largest --mins-before-start of a run.
MaxLead == 2
\* Seconds between the first utcnow() of the wait and the end of the wait.
MaxEarly == 2

\* ------------------------------------------------------- input universe
\* Python's None, kept apart from every number of the input universe.
None == 0 - 10^9

Statuses == {"OPEN", "CLOSED"}

\* selections: the dict get_market_info builds from the market catalogue.
selections == (11 :> "A") @@ (22 :> "B")

Level(price, size) == [price |-> price, size |-> size]

Ex(back, lay, traded) ==
    [available_to_back |-> back, available_to_lay |-> lay, traded_volume |-> traded]

Runner(selection_id, ex) ==
    [selection_id |-> selection_id, status |-> "ACTIVE", ex |-> ex]

\* Ladders of the stream-control runs: plain quotes, an empty level (price 0)
\* as the exchange sends for a depth with no offer.
QuoteA == Ex(<<Level(2000, 100000)>>, <<Level(2100, 50000)>>, <<>>)
QuoteB == Ex(<<Level(3500, 20000), Level(0, 0)>>, <<>>, <<Level(3400, 7500)>>)

ControlRunners ==
    { <<Runner(11, QuoteA)>>,
      <<Runner(11, QuoteA), Runner(22, QuoteB)>> }

\* Ladders of the sink runs: the same price twice, a price below half a cent,
\* two prices that print alike with two decimals, a runner whose selection id
\* (33) the catalogue does not hold, the same runner twice.
QuoteDup == Ex(<<Level(2000, 100000), Level(2000, 30000)>>, <<>>, <<>>)
QuoteSub == Ex(<<>>, <<Level(4, 1000)>>, <<Level(0, 0), Level(2000, 1000)>>)
QuoteNear == Ex(<<>>, <<>>, <<Level(2000, 1000), Level(2004, 2000)>>)

SinkRunners ==
    { <<>>,
      <<Runner(11, QuoteA)>>,
      <<Runner(22, QuoteB), Runner(11, QuoteSub)>>,
      <<Runner(11, QuoteDup)>>,
      <<Runner(22, QuoteNear)>>,
      <<Runner(11, QuoteA), Runner(33, QuoteA)>>,
      <<Runner(22, QuoteB), Runner(22, QuoteA)>> }

\* Ladders of the malformed-level runs: a level without size, a level without
\* price, a negative price, a negative size, each beside a well-formed level.
QuoteNoSize == Ex(<<Level(2000, None), Level(2100, 5000)>>, <<>>, <<>>)
QuoteNoPrice == Ex(<<>>, <<Level(None, 5000), Level(2100, 5000)>>, <<>>)
QuoteNegative ==
    Ex(<<Level(0 - 2000, 1000)>>, <<>>, <<Level(2000, 0 - 1000), Level(3400, 7500)>>)

MalformedRunners ==
    { <<Runner(11, QuoteA), Runner(22, QuoteB)>>,
      <<Runner(11, QuoteNoSize)>>,
      <<Runner(11, QuoteNoPrice), Runner(22, QuoteB)>>,
      <<Runner(22, QuoteNegative)>> }

\* market_books the listener may deliver: publish_time in times.
Books(times, runnerSeqs, inplays) ==
    [publish_time : times, status : Statuses, inplay : inplays, runners : runnerSeqs]

NoBook == [publish_time |-> 0, status |-> "NONE", inplay |-> FALSE, runners |-> <<>>]

\* ------------------------------------------------------------- database
Tables ==
    {"market_status", "selection_status",
     "available_to_back", "available_to_lay", "traded_volume"}

\* The three ladder tables, in the order of the loops of the pipeline.
Facets == <<"available_to_back", "available_to_lay", "traded_volume">>

\* create_sqlite_database: five empty tables.
create_sqlite_database == [t \in Tables |-> {}]

\* PRIMARY KEY of each table.
PrimaryKey(table, row) ==
    CASE table = "market_status" -> <<row.date_time>>
      [] table = "selection_status" -> <<row.date_time, row.selection>>
      [] OTHER -> <<row.date_time, row.selection, row.price>>


\* ------------------------------------------------------------ formatting
\* "{:.2f}".format(x): x in thousandths, the result in hundredths, rounded to
\* the nearest hundredth.  (An exact tie, x % 10 = 5, is decided by the binary
\* value of the float; no price or size of the input universe is a tie.)
Fmt2(x) == IF x >= 0 THEN (x + 5) \div 10 ELSE 0 - ((5 - x) \div 10)

\* "{:.2f}".format(x) raises TypeError (unsupported format string passed to
\* NoneType.__format__) when x is None.
FormatRaises(x) == x = None

\* date_time.strftime("%Y-%m-%d %H:%M:%S.%f"): the fields down to the second,
\* then the six digits of the microsecond.
strftime(date_time) == <<date_time \div 1000000, date_time % 1000000>>

\* Mutant: INSERT OR IGNORE, a row whose key is taken is dropped in silence.
executeIgnoring(cursor, table, row) ==
    IF \E r \in cursor.committed[table] \cup cursor.pending[table] :
           PrimaryKey(table, r) = PrimaryKey(table, row)
    THEN [raised |-> FALSE, pending |-> cursor.pending]
    ELSE [raised |-> FALSE,
          pending |-> [cursor.pending EXCEPT ![table] = @ \cup {row}]]

\* Mutant: the tables are declared without PRIMARY KEY.
executeNoKey(cursor, table, row) ==
    [raised |-> FALSE,
     pending |-> [cursor.pending EXCEPT ![table] = @ \cup {row}]]

\* cursor.execute of one INSERT on the open transaction of the connection:
\* the row joins the pending rows, unless a row of the table (committed, or
\* pending in this transaction) has the same PRIMARY KEY: sqlite3.IntegrityError.
execute(cursor, table, row) ==
    IF \E r \in cursor.committed[table] \cup cursor.pending[table] :
           PrimaryKey(table, r) = PrimaryKey(table, row)
    THEN [raised |-> TRUE, pending |-> cursor.pending]
    ELSE [raised |-> FALSE,
          pending |-> [cursor.pending EXCEPT ![table] = @ \cup {row}]]

insert_in_market_status_table(cursor, date_time, status, inplay) ==
    LET date_time_str == strftime(date_time)
        inplay_str == IF inplay THEN "TRUE" ELSE "FALSE"
    IN  execute(cursor, "market_status",
                [date_time |-> date_time_str, status |-> status, inplay |-> inplay_str])

insert_in_selection_status_table(cursor, date_time, selection, status) ==
    LET date_time_str == strftime(date_time)
    IN  execute(cursor, "selection_status",
                [date_time |-> date_time_str, selection |-> selection, status |-> status])

insert_in_available_to_back_table(cursor, date_time, selection, price, size) ==
    LET date_time_str == strftime(date_time)
    IN  IF price # 0
        THEN IF FormatRaises(price) \/ FormatRaises(size)
             THEN [raised |-> TRUE, pending |-> cursor.pending]
             ELSE execute(cursor, "available_to_back",
                          [date_time |-> date_time_str, selection |-> selection,
                           price |-> Fmt2(price), size |-> Fmt2(size)])
        ELSE [raised |-> FALSE, pending |-> cursor.pending]

insert_in_available_to_lay_table(cursor, date_time, selection, price, size) ==
    LET date_time_str == strftime(date_time)
    IN  IF price # 0
        THEN IF FormatRaises(price) \/ FormatRaises(size)
             THEN [raised |-> TRUE, pending |-> cursor.pending]
             ELSE execute(cursor, "available_to_lay",
                          [date_time |-> date_time_str, selection |-> selection,
                           price |-> Fmt2(price), size |-> Fmt2(size)])
        ELSE [raised |-> FALSE, pending |-> cursor.pending]

insert_in_traded_volume_table(cursor, date_time, selection, price, size) ==
    LET date_time_str == strftime(date_time)
    IN  IF price # 0
        THEN IF FormatRaises(price) \/ FormatRaises(size)
             THEN [raised |-> TRUE, pending |-> cursor.pending]
             ELSE execute(cursor, "traded_volume",
                          [date_time |-> date_time_str, selection |-> selection,
                           price |-> Fmt2(price), size |-> Fmt2(size)])
        ELSE [raised |-> FALSE, pending |-> cursor.pending]

\* --------------------------------------------------------------- state
VARIABLES
    mins_before_start,   \* --mins-before-start, or None
    now,                 \* datetime.utcnow() of the last poll of the wait
    market_data,         \* sql_to_parquet: the five tables MarketData loaded
    data,                \* sql_to_parquet: the DataFrame merge_market_data builds
    allow_inplay,        \* --in-play
    output_queue,        \* queue.Queue() filled by the stream listener
    stream,              \* "started" until stream.stop()
    clock,               \* publish_time of the last market book delivered
    pc,                  \* where data_collection_pipeline stands
    market_book,         \* market_books[0] of the iteration under way
    runner_no,           \* index of `runner` in market_book.runners
    level_no,            \* index of `back` / `lay` / `volume` in its ladder
    committed,           \* rows of output_sqlite_file the connection committed
    pending,             \* rows of the open transaction of the connection
    connection,          \* "open" until connection.close()
    market_snapshot_no,
    output_sqlite_file,  \* TRUE while the .db file exists
    output_zip_file,     \* <<>>, or <<tables written to the archive>>
    dequeued,            \* history: market books output_queue.get() returned
    stored,              \* history: market books whose connection.commit() ran
    exits                \* history: how the while loop was left, and where

\* The variables of the wait before the stream, and of the converter.
start == <<mins_before_start, now>>
converter == <<market_data, data>>

vars ==
    <<start, converter, allow_inplay, output_queue, stream, clock, pc, market_book, runner_no,
      level_no, committed, pending, connection, market_snapshot_no,
      output_sqlite_file, output_zip_file, dequeued, stored, exits>>

cursor == [committed |-> committed, pending |-> pending]

\* The state after connection, cursor = create_sqlite_database(...) and
\* market_snapshot_no = 0, the stream started.
Init ==
    /\ mins_before_start = None
    /\ now = 0
    /\ market_data = [t \in Tables |-> <<>>]
    /\ data = <<>>
    /\ allow_inplay \in BOOLEAN
    /\ output_queue = <<>>
    /\ stream = "started"
    /\ clock = 0
    /\ pc = "get"
    /\ market_book = NoBook
    /\ runner_no = 0
    /\ level_no = 0
    /\ committed = create_sqlite_database
    /\ pending = create_sqlite_database
    /\ connection = "open"
    /\ market_snapshot_no = 0
    /\ output_sqlite_file = TRUE
    /\ output_zip_file = <<>>
    /\ dequeued = <<>>
    /\ stored = <<>>
    /\ exits = <<>>

\* ------------------------------------------------- wait before the stream
\* timedelta(minutes=...), in seconds.
timedelta(minutes) == 60 * minutes

\* market_start_time of the market catalogue, in seconds.
market_start_time == timedelta(MaxLead + 1)

\* The state after get_market_info: no stream, no queue, no .db file yet.
WaitInit ==
    /\ mins_before_start \in {None} \cup (1..MaxLead)
    /\ now = 0
    /\ market_data = [t \in Tables |-> <<>>]
    /\ data = <<>>
    /\ allow_inplay \in BOOLEAN
    /\ output_queue = <<>>
    /\ stream = "none"
    /\ clock = 0
    /\ pc = "start"
    /\ market_book = NoBook
    /\ runner_no = 0
    /\ level_no = 0
    /\ committed = [t \in Tables |-> {}]
    /\ pending = [t \in Tables |-> {}]
    /\ connection = "none"
    /\ market_snapshot_no = 0
    /\ output_sqlite_file = FALSE
    /\ output_zip_file = <<>>
    /\ dequeued = <<>>
    /\ stored = <<>>
    /\ exits = <<>>

\* if mins_before_start is not None: trading.logout(); now = datetime.utcnow().
\* The program is started up to MaxEarly seconds before the end of the wait,
\* or a second after it.
BeforeStart ==
    /\ pc = "start"
    /\ IF mins_before_start # None
       THEN /\ \E early \in (0 - 1)..MaxEarly :
                  now' = market_start_time - timedelta(mins_before_start) - early
            /\ pc' = "wait"
       ELSE /\ now' = now
            /\ pc' = "subscribe"
    /\ UNCHANGED <<mins_before_start, converter, allow_inplay, output_queue,
                   stream, clock, market_book, runner_no, level_no, committed,
                   pending, connection, market_snapshot_no, output_sqlite_file,
                   output_zip_file, dequeued, stored, exits>>

\* One test of the while condition: time.sleep(1) and now = datetime.utcnow()
\* (a second later, or two), or the loop is left and trading.login() follows.
Sleep ==
    /\ pc = "wait"
    /\ IF market_start_time - now >= timedelta(mins_before_start)
       THEN /\ \E seconds \in 1..2 : now' = now + seconds
            /\ pc' = pc
       ELSE /\ now' = now
            /\ pc' = "subscribe"
    /\ UNCHANGED <<mins_before_start, converter, allow_inplay, output_queue,
                   stream, clock, market_book, runner_no, level_no, committed,
                   pending, connection, market_snapshot_no, output_sqlite_file,
                   output_zip_file, dequeued, stored, exits>>

\* Mutant: except KeyboardInterrupt: pass.  The wait is cut short and the
\* function goes on to the stream.
WaitInterruptPass ==
    /\ pc = "wait"
    /\ pc' = "subscribe"
    /\ exits' = Append(exits, [how |-> "interrupt", at |-> pc])
    /\ UNCHANGED <<start, converter, allow_inplay, output_queue, stream, clock,
                   market_book, runner_no, level_no, committed, pending,
                   connection, market_snapshot_no, output_sqlite_file,
                   output_zip_file, dequeued, stored>>

\* except KeyboardInterrupt: exit(0), in the wait.
WaitInterrupt ==
    /\ pc = "wait"
    /\ pc' = "exited"
    /\ exits' = Append(exits, [how |-> "interrupt", at |-> pc])
    /\ UNCHANGED <<start, converter, allow_inplay, output_queue, stream, clock,
                   market_book, runner_no, level_no, committed, pending,
                   connection, market_snapshot_no, output_sqlite_file,
                   output_zip_file, dequeued, stored>>

\* The output file paths, output_queue = queue.Queue(), the listener, the
\* subscription, stream.start(async_=True), create_sqlite_database(...) and
\* market_snapshot_no = 0.
StartStream ==
    /\ pc = "subscribe"
    /\ output_queue' = <<>>
    /\ stream' = "started"
    /\ committed' = create_sqlite_database
    /\ pending' = create_sqlite_database
    /\ connection' = "open"
    /\ output_sqlite_file' = TRUE
    /\ market_snapshot_no' = 0
    /\ pc' = "get"
    /\ UNCHANGED <<start, converter, allow_inplay, clock, market_book, runner_no,
                   level_no, output_zip_file, dequeued, stored, exits>>

\* ------------------------------------------------------------- producer
\* The listener thread puts one market book on output_queue.  The process is
\* alive and the stream not stopped; `limit` and `capacity` bound the run.
Stream(book, limit, capacity) ==
    /\ stream = "started"
    /\ pc \notin {"raised", "done"}
    /\ Len(dequeued) + Len(output_queue) < limit
    /\ Len(output_queue) < capacity
    /\ output_queue' = Append(output_queue, book)
    /\ clock' = book.publish_time
    /\ UNCHANGED <<start, converter, allow_inplay, stream, pc, market_book, runner_no, level_no,
                   committed, pending, connection, market_snapshot_no,
                   output_sqlite_file, output_zip_file, dequeued, stored, exits>>

\* ----------------------------------------------------------- loop control
\* Mutant: the CLOSED test is lost.
StopConditionNoClosed(market_status, market_inplay) ==
    IF allow_inplay
    THEN FALSE
    ELSE market_inplay = TRUE

\* Mutant: the branches of allow_inplay are swapped.
StopConditionSwapped(market_status, market_inplay) ==
    IF allow_inplay
    THEN market_status = "CLOSED" \/ market_inplay = TRUE
    ELSE market_status = "CLOSED"

\* "Stop the stream if the conditions are met".
StopCondition(market_status, market_inplay) ==
    IF allow_inplay
    THEN market_status = "CLOSED"
    ELSE market_status = "CLOSED" \/ market_inplay = TRUE

Position(p, i, j) == [pc |-> p, runner_no |-> i, level_no |-> j]

\* Where the body goes once the ladder Facets[k] of runner i is exhausted
\* (k = 0: after the selection_status insert): the next ladder of the runner
\* that is not empty, else the next runner, else connection.commit().
AfterLadder(book, i, k) ==
    LET later == {k2 \in (k + 1)..Len(Facets) :
                      book.runners[i].ex[Facets[k2]] # <<>>}
    IN  IF later # {}
        THEN Position(Facets[CHOOSE k2 \in later : \A k3 \in later : k2 <= k3], i, 1)
        ELSE IF i < Len(book.runners)
             THEN Position("selection_status", i + 1, 0)
             ELSE Position("commit", 0, 0)

\* Where the body goes after level j of ladder Facets[k] of runner i.
AfterLevel(book, i, k, j) ==
    IF j < Len(book.runners[i].ex[Facets[k]])
    THEN Position(Facets[k], i, j + 1)
    ELSE AfterLadder(book, i, k)

\* Where the body goes after the market_status insert.
AfterMarketStatus(book) ==
    IF book.runners # <<>>
    THEN Position("selection_status", 1, 0)
    ELSE Position("commit", 0, 0)

Goto(position) ==
    /\ pc' = position.pc
    /\ runner_no' = position.runner_no
    /\ level_no' = position.level_no

\* Mutant: except Exception: continue.  The loop goes on with the next market
\* book, the rows inserted so far left in the open transaction.
RaiseCaught ==
    /\ pc' = "get"
    /\ runner_no' = 0
    /\ level_no' = 0
    /\ market_book' = NoBook
    /\ pending' = pending
    /\ exits' = Append(exits, [how |-> "error", at |-> pc])

\* An exception other than KeyboardInterrupt leaves the loop and the function
\* uncaught: the process ends, and with it the open transaction.
Raise ==
    /\ pc' = "raised"
    /\ runner_no' = 0
    /\ level_no' = 0
    /\ market_book' = NoBook
    /\ pending' = [t \in Tables |-> {}]
    /\ exits' = Append(exits, [how |-> "error", at |-> pc])

\* The outcome of one insert call: the rows it left pending and the next
\* statement, or the exception it raised.
Inserted(result, position) ==
    IF result.raised
    THEN Raise
    ELSE /\ pending' = result.pending
         /\ Goto(position)
         /\ UNCHANGED <<market_book, exits>>

\* ------------------------------------------------------------ the loop
\* Mutant: the queue is a LifoQueue, get() returns the newest market book.
GetLifo ==
    /\ pc = "get"
    /\ output_queue # <<>>
    /\ LET book == output_queue[Len(output_queue)]
       IN  /\ output_queue' = SubSeq(output_queue, 1, Len(output_queue) - 1)
           /\ dequeued' = Append(dequeued, book)
           /\ IF StopCondition(book.status, book.inplay)
              THEN /\ pc' = "stop_stream"
                   /\ market_book' = NoBook
                   /\ exits' = Append(exits, [how |-> "stop", at |-> pc])
              ELSE /\ pc' = "market_status"
                   /\ market_book' = book
                   /\ exits' = exits
    /\ UNCHANGED <<start, converter, allow_inplay, stream, clock, runner_no, level_no, committed,
                   pending, connection, market_snapshot_no, output_sqlite_file,
                   output_zip_file, stored>>

\* Mutant: output_queue.get(timeout=...), and break when the queue stays empty.
GetTimeout ==
    /\ pc = "get"
    /\ IF output_queue = <<>>
       THEN /\ pc' = "stop_stream"
            /\ exits' = Append(exits, [how |-> "stop", at |-> pc])
            /\ UNCHANGED <<output_queue, dequeued, market_book>>
       ELSE LET book == Head(output_queue)
            IN  /\ output_queue' = Tail(output_queue)
                /\ dequeued' = Append(dequeued, book)
                /\ IF StopCondition(book.status, book.inplay)
                   THEN /\ pc' = "stop_stream"
                        /\ market_book' = NoBook
                        /\ exits' = Append(exits, [how |-> "stop", at |-> pc])
                   ELSE /\ pc' = "market_status"
                        /\ market_book' = book
                        /\ exits' = exits
    /\ UNCHANGED <<start, converter, allow_inplay, stream, clock, runner_no,
                   level_no, committed, pending, connection, market_snapshot_no,
                   output_sqlite_file, output_zip_file, stored>>

\* market_books = output_queue.get(), blocking while the queue is empty, and
\* the stop check on market_books[0]: break, or go on to the inserts.
Get ==
    /\ pc = "get"
    /\ output_queue # <<>>
    /\ LET book == Head(output_queue)
       IN  /\ output_queue' = Tail(output_queue)
           /\ dequeued' = Append(dequeued, book)
           /\ IF StopCondition(book.status, book.inplay)
              THEN /\ pc' = "stop_stream"
                   /\ market_book' = NoBook
                   /\ exits' = Append(exits, [how |-> "stop", at |-> pc])
              ELSE /\ pc' = "market_status"
                   /\ market_book' = book
                   /\ exits' = exits
    /\ UNCHANGED <<start, converter, allow_inplay, stream, clock, runner_no, level_no, committed,
                   pending, connection, market_snapshot_no, output_sqlite_file,
                   output_zip_file, stored>>

InsertMarketStatus ==
    /\ pc = "market_status"
    /\ Inserted(insert_in_market_status_table(
                    cursor, market_book.publish_time, market_book.status,
                    market_book.inplay),
                AfterMarketStatus(market_book))
    /\ UNCHANGED <<start, converter, allow_inplay, output_queue, stream, clock, committed,
                   connection, market_snapshot_no, output_sqlite_file,
                   output_zip_file, dequeued, stored>>

\* Mutant: a runner whose selection_id the dict does not hold is skipped
\* (selections.get(...) and continue).
InsertSelectionStatusSkipping ==
    /\ pc = "selection_status"
    /\ LET runner == market_book.runners[runner_no]
       IN  IF runner.selection_id \notin DOMAIN selections
           THEN /\ Goto(IF runner_no < Len(market_book.runners)
                        THEN Position("selection_status", runner_no + 1, 0)
                        ELSE Position("commit", 0, 0))
                /\ UNCHANGED <<pending, market_book, exits>>
           ELSE Inserted(insert_in_selection_status_table(
                             cursor, market_book.publish_time,
                             selections[runner.selection_id], runner.status),
                         AfterLadder(market_book, runner_no, 0))
    /\ UNCHANGED <<start, converter, allow_inplay, output_queue, stream, clock, committed,
                   connection, market_snapshot_no, output_sqlite_file,
                   output_zip_file, dequeued, stored>>

\* selection = selections[runner.selection_id] (KeyError for an id the dict
\* does not hold), then the selection_status insert.
InsertSelectionStatus ==
    /\ pc = "selection_status"
    /\ LET runner == market_book.runners[runner_no]
       IN  IF runner.selection_id \notin DOMAIN selections
           THEN Raise
           ELSE Inserted(insert_in_selection_status_table(
                             cursor, market_book.publish_time,
                             selections[runner.selection_id], runner.status),
                         AfterLadder(market_book, runner_no, 0))
    /\ UNCHANGED <<start, converter, allow_inplay, output_queue, stream, clock, committed,
                   connection, market_snapshot_no, output_sqlite_file,
                   output_zip_file, dequeued, stored>>

InsertBack ==
    /\ pc = "available_to_back"
    /\ LET runner == market_book.runners[runner_no]
           back == runner.ex.available_to_back[level_no]
       IN  Inserted(insert_in_available_to_back_table(
                        cursor, market_book.publish_time,
                        selections[runner.selection_id], back.price, back.size),
                    AfterLevel(market_book, runner_no, 1, level_no))
    /\ UNCHANGED <<start, converter, allow_inplay, output_queue, stream, clock, committed,
                   connection, market_snapshot_no, output_sqlite_file,
                   output_zip_file, dequeued, stored>>

InsertLay ==
    /\ pc = "available_to_lay"
    /\ LET runner == market_book.runners[runner_no]
           lay == runner.ex.available_to_lay[level_no]
       IN  Inserted(insert_in_available_to_lay_table(
                        cursor, market_book.publish_time,
                        selections[runner.selection_id], lay.price, lay.size),
                    AfterLevel(market_book, runner_no, 2, level_no))
    /\ UNCHANGED <<start, converter, allow_inplay, output_queue, stream, clock, committed,
                   connection, market_snapshot_no, output_sqlite_file,
                   output_zip_file, dequeued, stored>>

InsertTraded ==
    /\ pc = "traded_volume"
    /\ LET runner == market_book.runners[runner_no]
           volume == runner.ex.traded_volume[level_no]
       IN  Inserted(insert_in_traded_volume_table(
                        cursor, market_book.publish_time,
                        selections[runner.selection_id], volume.price, volume.size),
                    AfterLevel(market_book, runner_no, 3, level_no))
    /\ UNCHANGED <<start, converter, allow_inplay, output_queue, stream, clock, committed,
                   connection, market_snapshot_no, output_sqlite_file,
                   output_zip_file, dequeued, stored>>

\* Mutant: the commit replaces the tables by the rows of this snapshot.
CommitReplacing ==
    /\ pc = "commit"
    /\ committed' = pending
    /\ pending' = [t \in Tables |-> {}]
    /\ stored' = Append(stored, market_book)
    /\ pc' = "count"
    /\ UNCHANGED <<start, converter, allow_inplay, output_queue, stream, clock, market_book,
                   runner_no, level_no, connection, market_snapshot_no,
                   output_sqlite_file, output_zip_file, dequeued, exits>>

\* connection.commit(): the pending rows become committed rows.
Commit ==
    /\ pc = "commit"
    /\ committed' = [t \in Tables |-> committed[t] \cup pending[t]]
    /\ pending' = [t \in Tables |-> {}]
    /\ stored' = Append(stored, market_book)
    /\ pc' = "count"
    /\ UNCHANGED <<start, converter, allow_inplay, output_queue, stream, clock, market_book,
                   runner_no, level_no, connection, market_snapshot_no,
                   output_sqlite_file, output_zip_file, dequeued, exits>>

\* Mutant: the counter counts the runners of the snapshot, not the snapshot.
CountRunners ==
    /\ pc = "count"
    /\ market_snapshot_no' = market_snapshot_no + Len(market_book.runners)
    /\ pc' = "get"
    /\ market_book' = NoBook
    /\ UNCHANGED <<start, converter, allow_inplay, output_queue, stream, clock,
                   runner_no, level_no, committed, pending, connection,
                   output_sqlite_file, output_zip_file, dequeued, stored, exits>>

\* market_snapshot_no = market_snapshot_no + 1, and back to the top of the loop.
Count ==
    /\ pc = "count"
    /\ market_snapshot_no' = market_snapshot_no + 1
    /\ pc' = "get"
    /\ market_book' = NoBook
    /\ UNCHANGED <<start, converter, allow_inplay, output_queue, stream, clock, runner_no,
                   level_no, committed, pending, connection, output_sqlite_file,
                   output_zip_file, dequeued, stored, exits>>

\* Statements of the try block: a KeyboardInterrupt raised at any of them is
\* caught by the except clause of the loop.
TryBlock ==
    {"get", "market_status", "selection_status", "available_to_back",
     "available_to_lay", "traded_volume", "commit", "count"}

\* Mutant: except KeyboardInterrupt: continue.
KeyboardInterruptContinue ==
    /\ pc \in TryBlock
    /\ pc' = "get"
    /\ runner_no' = 0
    /\ level_no' = 0
    /\ market_book' = NoBook
    /\ exits' = Append(exits, [how |-> "interrupt", at |-> pc])
    /\ UNCHANGED <<start, converter, allow_inplay, output_queue, stream, clock, committed, pending,
                   connection, market_snapshot_no, output_sqlite_file,
                   output_zip_file, dequeued, stored>>

\* Mutant: except KeyboardInterrupt: exit(0), as the handler of the wait before
\* the stream does.
KeyboardInterruptExit ==
    /\ pc \in TryBlock
    /\ pc' = "done"
    /\ runner_no' = 0
    /\ level_no' = 0
    /\ market_book' = NoBook
    /\ pending' = [t \in Tables |-> {}]
    /\ exits' = Append(exits, [how |-> "interrupt", at |-> pc])
    /\ UNCHANGED <<start, converter, allow_inplay, output_queue, stream, clock, committed,
                   connection, market_snapshot_no, output_sqlite_file,
                   output_zip_file, dequeued, stored>>

\* except KeyboardInterrupt: break.
KeyboardInterrupt ==
    /\ pc \in TryBlock
    /\ pc' = "stop_stream"
    /\ runner_no' = 0
    /\ level_no' = 0
    /\ market_book' = NoBook
    /\ exits' = Append(exits, [how |-> "interrupt", at |-> pc])
    /\ UNCHANGED <<start, converter, allow_inplay, output_queue, stream, clock, committed, pending,
                   connection, market_snapshot_no, output_sqlite_file,
                   output_zip_file, dequeued, stored>>

\* ------------------------------------------------------------- teardown
\* stream.stop() (and trading.logout()).
StopStream ==
    /\ pc = "stop_stream"
    /\ stream' = "stopped"
    /\ pc' = "close"
    /\ UNCHANGED <<start, converter, allow_inplay, output_queue, clock, market_book, runner_no,
                   level_no, committed, pending, connection, market_snapshot_no,
                   output_sqlite_file, output_zip_file, dequeued, stored, exits>>

\* Mutant: the connection commits the open transaction when it is closed.
CloseCommitting ==
    /\ pc = "close"
    /\ connection' = "closed"
    /\ committed' = [t \in Tables |-> committed[t] \cup pending[t]]
    /\ pending' = [t \in Tables |-> {}]
    /\ pc' = "zip"
    /\ UNCHANGED <<start, converter, allow_inplay, output_queue, stream, clock, market_book,
                   runner_no, level_no, market_snapshot_no,
                   output_sqlite_file, output_zip_file, dequeued, stored, exits>>

\* cursor.close(); connection.close(): no commit, so the rows of an open
\* transaction are rolled back.
Close ==
    /\ pc = "close"
    /\ connection' = "closed"
    /\ pending' = [t \in Tables |-> {}]
    /\ pc' = "zip"
    /\ UNCHANGED <<start, converter, allow_inplay, output_queue, stream, clock, market_book,
                   runner_no, level_no, committed, market_snapshot_no,
                   output_sqlite_file, output_zip_file, dequeued, stored, exits>>

\* Mutant: os.remove(output_sqlite_file) comes before the archive is written.
ZipRemoving ==
    /\ pc = "zip"
    /\ output_sqlite_file' = FALSE
    /\ pc' = "remove"
    /\ UNCHANGED <<start, converter, allow_inplay, output_queue, stream, clock,
                   market_book, runner_no, level_no, committed, pending,
                   connection, market_snapshot_no, output_zip_file, dequeued,
                   stored, exits>>

\* zip_f.write(output_sqlite_file, ...): the archive holds the committed rows.
Zip ==
    /\ pc = "zip"
    /\ output_zip_file' = <<committed>>
    /\ pc' = "remove"
    /\ UNCHANGED <<start, converter, allow_inplay, output_queue, stream, clock, market_book,
                   runner_no, level_no, committed, pending, connection,
                   market_snapshot_no, output_sqlite_file, dequeued, stored, exits>>

\* os.remove(output_sqlite_file); return output_zip_file.
Remove ==
    /\ pc = "remove"
    /\ output_sqlite_file' = FALSE
    /\ committed' = [t \in Tables |-> {}]
    /\ pc' = "done"
    /\ UNCHANGED <<start, converter, allow_inplay, output_queue, stream, clock, market_book,
                   runner_no, level_no, pending, connection, market_snapshot_no,
                   output_zip_file, dequeued, stored, exits>>

\* ------------------------------------------------------- sql_to_parquet
\* The archives the converter is given: for each table a set of rows as the
\* recorder stores them.  Ticks 0.999999 s and 1.000000 s, selections "A" and
\* "B", prices 2.00 and 2.10, sizes that may be 0; keys held by one, two or
\* three of the ladder tables, ticks and runners with and without status rows.
PriceRow(publish_time, selection, price, size) ==
    [date_time |-> strftime(publish_time), selection |-> selection,
     price |-> price, size |-> size]

SelectionRow(publish_time, selection, status) ==
    [date_time |-> strftime(publish_time), selection |-> selection,
     status |-> status]

MarketRow(publish_time, status, inplay) ==
    [date_time |-> strftime(publish_time), status |-> status, inplay |-> inplay]

BackRowSets ==
    { {},
      {PriceRow(1000000, "A", 200, 10000)},
      {PriceRow(999999, "B", 210, 10000), PriceRow(1000000, "A", 200, 0)},
      {PriceRow(1000000, "B", 200, 2000), PriceRow(1000000, "A", 210, 5000),
       PriceRow(1000000, "A", 200, 10000)} }

LayRowSets ==
    { {},
      {PriceRow(1000000, "A", 200, 7000)},
      {PriceRow(1000000, "A", 210, 7000), PriceRow(999999, "B", 210, 3000)} }

TradedRowSets ==
    { {},
      {PriceRow(1000000, "B", 200, 1000)},
      {PriceRow(1000000, "A", 200, 0)} }

SelectionStatusRowSets ==
    { {},
      {SelectionRow(999999, "B", "ACTIVE")},
      {SelectionRow(1000000, "A", "ACTIVE"), SelectionRow(1000000, "B", "REMOVED")} }

MarketStatusRowSets ==
    { {},
      {MarketRow(1000000, "OPEN", "FALSE")},
      {MarketRow(999999, "OPEN", "FALSE"), MarketRow(1000000, "SUSPENDED", "TRUE")} }

Archives ==
    [market_status : MarketStatusRowSets,
     selection_status : SelectionStatusRowSets,
     available_to_back : BackRowSets,
     available_to_lay : LayRowSets,
     traded_volume : TradedRowSets]

\* pd.to_datetime(..., format="%Y-%m-%d %H:%M:%S.%f"): the seconds and the
\* microseconds of the string, as one time.
to_datetime(date_time_str) == date_time_str[1] * 1000000 + date_time_str[2]

\* The sequences that list every element of a set once.
RECURSIVE Orderings(_)
Orderings(rows) ==
    IF rows = {}
    THEN {<<>>}
    ELSE UNION { { <<r>> \o rest : rest \in Orderings(rows \ {r}) } : r \in rows }

\* pd.read_sql_query("select * from <table>;") and the to_datetime of its
\* date_time column: the rows of the table, in an order the query leaves open.
read_sql_query(rows) ==
    Orderings({ [r EXCEPT !.date_time = to_datetime(@)] : r \in rows })

\* _load_market_data: the five DataFrames (astype 'category' changes no value).
load_market_data(zip_file) ==
    { [market_status |-> ms, selection_status |-> ss, available_to_back |-> b,
       available_to_lay |-> l, traded_volume |-> tv] :
        ms \in read_sql_query(zip_file.market_status),
        ss \in read_sql_query(zip_file.selection_status),
        b \in read_sql_query(zip_file.available_to_back),
        l \in read_sql_query(zip_file.available_to_lay),
        tv \in read_sql_query(zip_file.traded_volume) }

\* DataFrame.rename(columns={old: new}).
rename(frame, old, new) ==
    [n \in DOMAIN frame |->
        [c \in (DOMAIN frame[n] \ {old}) \cup {new} |->
            IF c = new THEN frame[n][old] ELSE frame[n][c]]]

\* The order of the selection names as strings.
selection_names == <<"A", "B">>

Ord(selection) ==
    CHOOSE n \in DOMAIN selection_names : selection_names[n] = selection

\* a < b for two values of a column.
Before(column, a, b) ==
    IF column = "selection" THEN Ord(a) < Ord(b) ELSE a < b

\* row1 comes before row2 in the lexicographic order of the columns `by`.
RECURSIVE Less(_, _, _)
Less(row1, row2, by) ==
    /\ by # <<>>
    /\ \/ Before(Head(by), row1[Head(by)], row2[Head(by)])
       \/ /\ row1[Head(by)] = row2[Head(by)]
          /\ Less(row1, row2, Tail(by))

\* DataFrame.sort_values(by=...).reset_index(drop=True): ascending.
RECURSIVE sort_values(_, _)
sort_values(frame, by) ==
    IF frame = <<>>
    THEN <<>>
    ELSE LET first == Head(frame)
             rest == sort_values(Tail(frame), by)
         IN  SelectSeq(rest, LAMBDA r : Less(r, first, by))
                 \o <<first>>
                 \o SelectSeq(rest, LAMBDA r : ~Less(r, first, by))

\* The null of pandas (NaN) in a column: None in a column of numbers, a string
\* of its own in a column of strings, TLC comparing values of one type only.
NaN(column) ==
    IF column \in {"selection_status", "market_status", "inplay"}
    THEN "NaN"
    ELSE None

RECURSIVE Flatten(_)
Flatten(frames) ==
    IF frames = <<>> THEN <<>> ELSE Head(frames) \o Flatten(Tail(frames))

\* Mutant: the missing sizes are filled with 0 (fillna(0)).
pd_mergeZeroFilled(left, right, on, how, left_columns, right_columns) ==
    LET columns == {on[n] : n \in DOMAIN on}
        KeyOf(row) == [c \in columns |-> row[c]]
        Matches(l) == SelectSeq(right, LAMBDA r : KeyOf(r) = KeyOf(l))
        LeftRows(l) ==
            IF Matches(l) = <<>>
            THEN <<l @@ [c \in right_columns \ columns |->
                             IF c \in {"back_size", "lay_size", "traded_size"}
                             THEN 0 ELSE NaN(c)]>>
            ELSE [n \in DOMAIN Matches(l) |-> l @@ Matches(l)[n]]
        left_part == Flatten([n \in DOMAIN left |-> LeftRows(left[n])])
        right_only ==
            SelectSeq(right, LAMBDA r : \A n \in DOMAIN left : KeyOf(left[n]) # KeyOf(r))
        right_part ==
            [n \in DOMAIN right_only |->
                right_only[n] @@ [c \in left_columns \ columns |->
                                     IF c \in {"back_size", "lay_size", "traded_size"}
                             THEN 0 ELSE NaN(c)]]
    IN  IF how = "left"
        THEN left_part
        ELSE sort_values(left_part \o right_part, on)

\* pd.merge(left, right, on=..., how=...) for how "left" and "outer": every row
\* of left joined with each row of right of the same key, or with nulls when
\* there is none, in the order of left; for "outer" also the rows of right
\* whose key left does not hold, nulls in the columns of left, and the keys in
\* lexicographic order.
pd_merge(left, right, on, how, left_columns, right_columns) ==
    LET columns == {on[n] : n \in DOMAIN on}
        KeyOf(row) == [c \in columns |-> row[c]]
        Matches(l) == SelectSeq(right, LAMBDA r : KeyOf(r) = KeyOf(l))
        LeftRows(l) ==
            IF Matches(l) = <<>>
            THEN <<l @@ [c \in right_columns \ columns |-> NaN(c)]>>
            ELSE [n \in DOMAIN Matches(l) |-> l @@ Matches(l)[n]]
        left_part == Flatten([n \in DOMAIN left |-> LeftRows(left[n])])
        right_only ==
            SelectSeq(right, LAMBDA r : \A n \in DOMAIN left : KeyOf(left[n]) # KeyOf(r))
        right_part ==
            [n \in DOMAIN right_only |->
                right_only[n] @@ [c \in left_columns \ columns |-> NaN(c)]]
    IN  IF how = "left"
        THEN left_part
        ELSE sort_values(left_part \o right_part, on)

\* The columns of the frames of merge_market_data.
PriceKey == <<"date_time", "selection", "price">>
BackColumns == {"date_time", "selection", "price", "back_size"}
LayColumns == {"date_time", "selection", "price", "lay_size"}
TradedColumns == {"date_time", "selection", "price", "traded_size"}
SelectionStatusColumns == {"date_time", "selection", "selection_status"}
MarketStatusColumns == {"date_time", "market_status", "inplay"}

\* The steps of merge_market_data.
MergedLay(md) ==
    pd_merge(rename(md.available_to_back, "size", "back_size"),
             rename(md.available_to_lay, "size", "lay_size"),
             PriceKey, "outer", BackColumns, LayColumns)

MergedTraded(frame, md) ==
    pd_merge(frame, rename(md.traded_volume, "size", "traded_size"),
             PriceKey, "outer", BackColumns \cup LayColumns, TradedColumns)

MergedSelectionStatus(frame, md) ==
    pd_merge(frame, rename(md.selection_status, "status", "selection_status"),
             <<"date_time", "selection">>, "left",
             BackColumns \cup LayColumns \cup TradedColumns, SelectionStatusColumns)

MergedMarketStatus(frame, md) ==
    pd_merge(frame, rename(md.market_status, "status", "market_status"),
             <<"date_time">>, "left",
             BackColumns \cup LayColumns \cup TradedColumns \cup SelectionStatusColumns,
             MarketStatusColumns)

\* Mutant: sort_values(by=['price', 'selection', 'date_time']).
SortedByPrice(frame) == sort_values(frame, <<"price", "selection", "date_time">>)

Sorted(frame) == sort_values(frame, PriceKey)

merge_market_data(md) ==
    Sorted(MergedMarketStatus(MergedSelectionStatus(
               MergedTraded(MergedLay(md), md), md), md))

\* The state of convert_sql_to_parquet at its start: the zipped SQL file is any
\* archive of the universe.
ConvertInit ==
    /\ mins_before_start = None
    /\ now = 0
    /\ market_data = [t \in Tables |-> <<>>]
    /\ data = <<>>
    /\ allow_inplay = FALSE
    /\ output_queue = <<>>
    /\ stream = "stopped"
    /\ clock = 0
    /\ pc = "load_data"
    /\ market_book = NoBook
    /\ runner_no = 0
    /\ level_no = 0
    /\ committed = [t \in Tables |-> {}]
    /\ pending = [t \in Tables |-> {}]
    /\ connection = "closed"
    /\ market_snapshot_no = 0
    /\ output_sqlite_file = FALSE
    /\ output_zip_file \in { <<zip_file>> : zip_file \in Archives }
    /\ dequeued = <<>>
    /\ stored = <<>>
    /\ exits = <<>>

recorder ==
    <<start, allow_inplay, output_queue, stream, clock, market_book, runner_no,
      level_no, committed, pending, connection, market_snapshot_no,
      output_sqlite_file, output_zip_file, dequeued, stored, exits>>

\* market_data.load_data().
LoadData ==
    /\ pc = "load_data"
    /\ market_data' \in load_market_data(output_zip_file[1])
    /\ pc' = "merge_lay"
    /\ UNCHANGED <<data, recorder>>

\* pd.merge(available_to_back, available_to_lay, how='outer').
MergeLay ==
    /\ pc = "merge_lay"
    /\ data' = MergedLay(market_data)
    /\ pc' = "merge_traded"
    /\ UNCHANGED <<market_data, recorder>>

\* Mutant: the traded volume is merged with how='left'.
MergeTradedLeft ==
    /\ pc = "merge_traded"
    /\ data' = pd_merge(data, rename(market_data.traded_volume, "size", "traded_size"),
                        PriceKey, "left", BackColumns \cup LayColumns, TradedColumns)
    /\ pc' = "merge_selection_status"
    /\ UNCHANGED <<market_data, recorder>>

\* .merge(traded_volume, how='outer').
MergeTraded ==
    /\ pc = "merge_traded"
    /\ data' = MergedTraded(data, market_data)
    /\ pc' = "merge_selection_status"
    /\ UNCHANGED <<market_data, recorder>>

\* Mutant: the selection status is merged with how='inner'.
MergeSelectionStatusInner ==
    /\ pc = "merge_selection_status"
    /\ data' = SelectSeq(MergedSelectionStatus(data, market_data),
                         LAMBDA r : r.selection_status # NaN("selection_status"))
    /\ pc' = "merge_market_status"
    /\ UNCHANGED <<market_data, recorder>>

\* .merge(selection_status, on=['date_time', 'selection'], how='left').
MergeSelectionStatus ==
    /\ pc = "merge_selection_status"
    /\ data' = MergedSelectionStatus(data, market_data)
    /\ pc' = "merge_market_status"
    /\ UNCHANGED <<market_data, recorder>>

\* Mutant: the market status is merged with how='outer'.
MergeMarketStatusOuter ==
    /\ pc = "merge_market_status"
    /\ data' = pd_merge(data, rename(market_data.market_status, "status", "market_status"),
                        <<"date_time">>, "outer",
                        BackColumns \cup LayColumns \cup TradedColumns
                            \cup SelectionStatusColumns,
                        MarketStatusColumns)
    /\ pc' = "sort_values"
    /\ UNCHANGED <<market_data, recorder>>

\* .merge(market_status, on=['date_time'], how='left').
MergeMarketStatus ==
    /\ pc = "merge_market_status"
    /\ data' = MergedMarketStatus(data, market_data)
    /\ pc' = "sort_values"
    /\ UNCHANGED <<market_data, recorder>>

\* .sort_values(by=['date_time', 'selection', 'price']).reset_index(drop=True).
SortValues ==
    /\ pc = "sort_values"
    /\ data' = Sorted(data)
    /\ pc' = "merged"
    /\ UNCHANGED <<market_data, recorder>>

\* ------------------------------------------------------- specifications
Pipeline ==
    \/ Get
    \/ InsertMarketStatus
    \/ InsertSelectionStatus
    \/ InsertBack
    \/ InsertLay
    \/ InsertTraded
    \/ Commit
    \/ Count
    \/ KeyboardInterrupt
    \/ StopStream
    \/ Close
    \/ Zip
    \/ Remove

\* Stream control: market books of strictly increasing publish_time, runners
\* of the catalogue, every market status and in-play flag.
Next ==
    \/ \E book \in Books({clock + 1}, ControlRunners, BOOLEAN) :
           Stream(book, MaxSnapshots, MaxQueue)
    \/ Pipeline

Spec == Init /\ [][Next]_vars

\* Sink: market books of non-decreasing publish_time, not in-play, whose
\* runners and ladders may break a PRIMARY KEY or the selections lookup.
SinkNext ==
    \/ \E book \in Books({clock, clock + 1}, SinkRunners, {FALSE}) :
           Stream(book, MaxSinkSnapshots, 1)
    \/ Pipeline

SinkSpec == Init /\ [][SinkNext]_vars

\* Malformed levels: market books of strictly increasing publish_time, not
\* in-play, whose ladders hold levels without price or size, or negative ones.
MalformedNext ==
    \/ \E book \in Books({clock + 1}, MalformedRunners, {FALSE}) :
           Stream(book, MaxSinkSnapshots, 1)
    \/ Pipeline

MalformedSpec == Init /\ [][MalformedNext]_vars

\* The whole run, from the wait before the stream on: market books of strictly
\* increasing publish_time, not in-play, of two runners.
WaitNext ==
    \/ BeforeStart
    \/ Sleep
    \/ WaitInterrupt
    \/ StartStream
    \/ \E book \in Books({clock + 1}, {<<Runner(11, QuoteA), Runner(22, QuoteB)>>},
                         {FALSE}) :
           Stream(book, MaxSinkSnapshots, 1)
    \/ Pipeline

WaitSpec == WaitInit /\ [][WaitNext]_vars

\* The steps of the controller thread, which runs whenever it can: it blocks
\* only in output_queue.get(), while the queue is empty.  The interrupt is not
\* one of them: it comes from outside, or never.
Controller ==
    \/ Get
    \/ InsertMarketStatus
    \/ InsertSelectionStatus
    \/ InsertBack
    \/ InsertLay
    \/ InsertTraded
    \/ Commit
    \/ Count
    \/ StopStream
    \/ Close
    \/ Zip
    \/ Remove

\* Runs without lookup or write failure: market books of strictly increasing
\* publish_time, two runners of the catalogue, every market status and
\* in-play flag; the listener may deliver at any time, or stay silent.
LiveNext ==
    \/ \E book \in Books({clock + 1}, {<<Runner(11, QuoteA), Runner(22, QuoteB)>>},
                         BOOLEAN) :
           Stream(book, MaxSinkSnapshots, MaxQueue)
    \/ Pipeline

LiveSpec == Init /\ [][LiveNext]_vars /\ WF_vars(Controller)

\* The converter: load the archive, merge, sort.
ConvertNext ==
    \/ LoadData
    \/ MergeLay
    \/ MergeTraded
    \/ MergeSelectionStatus
    \/ MergeMarketStatus
    \/ SortValues

ConvertSpec == ConvertInit /\ [][ConvertNext]_vars

\* ------------------------------------------------- what a run persisted
\* The rows the loop body inserts for one market book: one market_status row,
\* one selection_status row per runner, one ladder row per (price, size) pair
\* whose price is not 0.
LadderRows(book, facet) ==
    UNION { { [date_time |-> strftime(book.publish_time),
               selection |-> selections[book.runners[i].selection_id],
               price |-> Fmt2(book.runners[i].ex[facet][j].price),
               size |-> Fmt2(book.runners[i].ex[facet][j].size)] :
              j \in {j2 \in DOMAIN book.runners[i].ex[facet] :
                         book.runners[i].ex[facet][j2].price # 0} } :
            i \in DOMAIN book.runners }

SnapshotRows(book) ==
    [t \in Tables |->
        CASE t = "market_status" ->
                 { [date_time |-> strftime(book.publish_time),
                    status |-> book.status,
                    inplay |-> IF book.inplay THEN "TRUE" ELSE "FALSE"] }
          [] t = "selection_status" ->
                 { [date_time |-> strftime(book.publish_time),
                    selection |-> selections[book.runners[i].selection_id],
                    status |-> book.runners[i].status] : i \in DOMAIN book.runners }
          [] OTHER -> LadderRows(book, t)]

RowsOf(books) ==
    [t \in Tables |-> UNION { SnapshotRows(books[n])[t] : n \in DOMAIN books }]

\* The persisted dataset: the committed rows of the .db file while it exists,
\* the archive once the file is removed.
Dataset == IF output_sqlite_file THEN committed ELSE output_zip_file[1]

\* A market book that stops the stream under the run's allow_inplay.
Stops(book) ==
    book.status = "CLOSED" \/ (~allow_inplay /\ book.inplay)

Front(seq) == SubSeq(seq, 1, Len(seq) - 1)

\* The loop was left, once, in the given way.
ExitedBy(how) == Len(exits) = 1 /\ exits[1].how = how

\* The statements after the loop.
Teardown == {"stop_stream", "close", "zip", "remove", "done"}

\* ---------------------------------------------------------------- claims
\* C1: when snapshot k is the first CLOSED one the controller dequeues (and no
\* earlier snapshot stopped the stream), the loop is left exactly once, by the
\* stop condition, at k: nothing is dequeued after k, the committed snapshots
\* are exactly snapshots 1..k-1 and the dataset holds exactly their rows.
C1_StopOnClosed ==
    /\ Len(exits) <= 1
    /\ \A k \in DOMAIN dequeued :
          ( /\ dequeued[k].status = "CLOSED"
            /\ \A j \in 1..(k - 1) : ~Stops(dequeued[j]) )
          => /\ k = Len(dequeued)
             /\ ExitedBy("stop")
             /\ stored = SubSeq(dequeued, 1, k - 1)
             /\ Dataset = RowsOf(SubSeq(dequeued, 1, k - 1))
             /\ pending = [t \in Tables |-> {}]

\* C1 witness: with in-play allowed, an in-play snapshot was committed, the
\* second snapshot was CLOSED, a third one was left in the queue, and the run
\* finished its teardown.
C1_Witness ==
    /\ allow_inplay
    /\ pc = "done"
    /\ Len(dequeued) = 2
    /\ dequeued[1].inplay
    /\ dequeued[2].status = "CLOSED"
    /\ Len(stored) = 1
    /\ output_queue # <<>>
    /\ ExitedBy("stop")

\* C2: with allow_inplay false, the first in-play snapshot m the controller
\* dequeues stops the stream: nothing is dequeued after m and exactly snapshots
\* 1..m-1 are persisted.  With allow_inplay true, an in-play snapshot that is
\* not CLOSED never stops the stream: a stop happens only at a CLOSED snapshot,
\* with every snapshot before it persisted.
C2_InplayGating ==
    /\ ~allow_inplay =>
          \A m \in DOMAIN dequeued :
             ( /\ dequeued[m].inplay
               /\ \A j \in 1..(m - 1) : ~Stops(dequeued[j]) )
             => /\ m = Len(dequeued)
                /\ ExitedBy("stop")
                /\ stored = SubSeq(dequeued, 1, m - 1)
                /\ Dataset = RowsOf(SubSeq(dequeued, 1, m - 1))
    /\ allow_inplay =>
          /\ \A m \in DOMAIN dequeued :
                (dequeued[m].inplay /\ dequeued[m].status # "CLOSED")
                => (m < Len(dequeued) \/ ~ExitedBy("stop"))
          /\ ExitedBy("stop") =>
                /\ dequeued[Len(dequeued)].status = "CLOSED"
                /\ stored = Front(dequeued)
                /\ Dataset = RowsOf(Front(dequeued))

\* C2 witness: in-play not allowed, two snapshots committed, the third one is
\* OPEN and in-play, and the run finished its teardown.
C2_Witness ==
    /\ ~allow_inplay
    /\ pc = "done"
    /\ Len(dequeued) = 3
    /\ dequeued[3].inplay
    /\ dequeued[3].status = "OPEN"
    /\ Len(stored) = 2
    /\ ExitedBy("stop")

\* C3: in every state the persisted dataset is exactly the union of the full
\* row sets of the committed snapshots, which are snapshots the controller
\* dequeued: a snapshot is either wholly in the dataset or not in it.
C3_SnapshotAtomicity ==
    /\ Len(stored) <= Len(dequeued)
    /\ stored = SubSeq(dequeued, 1, Len(stored))
    /\ Dataset = RowsOf(stored)

\* C3 witness: the second snapshot failed on the selections lookup of its
\* second runner, after its market_status row and the rows of its first runner
\* were inserted, and the first snapshot is committed.
C3_Witness ==
    /\ ExitedBy("error")
    /\ Len(stored) = 1
    /\ Len(dequeued) = 2
    /\ dequeued[2].publish_time # dequeued[1].publish_time
    /\ Len(dequeued[2].runners) = 2
    /\ dequeued[2].runners[2].selection_id \notin DOMAIN selections

\* The statements of the loop body between the stop check and the commit.
InFlight ==
    {"market_status", "selection_status", "available_to_back",
     "available_to_lay", "traded_volume", "commit"}

\* C4 as claimed: when an interrupt arrives after a snapshot was dequeued and
\* passed the stop check but before its commit, the complete set of that
\* snapshot's rows is committed by the time the sink is closed.
C4_InFlightCommitted ==
    (ExitedBy("interrupt") /\ exits[1].at \in InFlight /\ connection = "closed")
    => \A t \in Tables :
          SnapshotRows(dequeued[Len(dequeued)])[t] \subseteq Dataset[t]

\* C4 as amended: when an interrupt arrives after a snapshot was dequeued and
\* passed the stop check but before its commit, the controller is in teardown
\* and pulls no further snapshot, and none of the rows of the in-flight
\* snapshot is committed: the dataset stays the rows of the snapshots
\* committed before it, and closing the sink discards the pending inserts.
C4_InFlightDiscarded ==
    (ExitedBy("interrupt") /\ exits[1].at \in InFlight)
    => /\ pc \in Teardown
       /\ Len(dequeued) = Len(stored) + 1
       /\ stored = Front(dequeued)
       /\ Dataset = RowsOf(stored)
       /\ \A t \in Tables :
             SnapshotRows(dequeued[Len(dequeued)])[t] \cap Dataset[t] = {}
       /\ connection = "closed" => pending = [t \in Tables |-> {}]

\* C4 witness: the interrupt arrived at a lay insert of the second snapshot,
\* after rows of it were inserted; the run finished its teardown with a third
\* snapshot left in the queue.
C4_Witness ==
    /\ ExitedBy("interrupt")
    /\ exits[1].at = "available_to_lay"
    /\ pc = "done"
    /\ Len(stored) = 1
    /\ Len(dequeued) = 2
    /\ output_queue # <<>>

\* C5: at every statement of the streaming loop an interrupt can be taken; once
\* the loop is left by an interrupt or by a stop snapshot the controller is in
\* teardown, never back in the loop, and the teardown is the same in both cases:
\* stream stopped, then sink closed without commit, then the archive of the
\* committed snapshots written, then the .db file removed.
C5_InterruptIsStop ==
    /\ pc \notin Teardown \cup {"raised"} => ENABLED KeyboardInterrupt
    /\ (ExitedBy("interrupt") \/ ExitedBy("stop")) =>
          /\ pc \in Teardown
          /\ stream = (IF pc = "stop_stream" THEN "started" ELSE "stopped")
          /\ connection = (IF pc \in {"stop_stream", "close"} THEN "open" ELSE "closed")
          /\ (output_zip_file # <<>>) = (pc \in {"remove", "done"})
          /\ output_sqlite_file = (pc # "done")
          /\ pc \in {"zip", "remove", "done"} => pending = [t \in Tables |-> {}]
          /\ output_zip_file # <<>> => output_zip_file[1] = RowsOf(stored)

\* C5 witness: an interrupt taken while blocked in the dequeue, after one
\* snapshot was committed, and the teardown finished.
C5_Witness ==
    /\ ExitedBy("interrupt")
    /\ exits[1].at = "get"
    /\ pc = "done"
    /\ Len(stored) = 1
    /\ stream = "stopped"
    /\ connection = "closed"
    /\ output_zip_file = <<RowsOf(stored)>>

\* C6: no step removes or changes a row of the persisted dataset: every row
\* in it before the step is in it after the step.
C6_AppendOnly ==
    [][\A t \in Tables : Dataset[t] \subseteq Dataset'[t]]_vars

\* C6 witness: a snapshot with ladder rows is committed and a later snapshot
\* failed on an insert; the committed rows are all there.
C6_Witness ==
    /\ ExitedBy("error")
    /\ exits[1].at \in {"available_to_back", "traded_volume"}
    /\ Len(stored) = 1
    /\ Dataset["available_to_back"] # {}
    /\ Dataset = RowsOf(stored)

\* C7: the market books are dequeued in arrival order (publish_time n is the
\* n-th delivered), and the committed snapshots are a prefix of the dequeued
\* ones, in the same order, lacking at most the last dequeued one.
C7_ProcessingOrder ==
    /\ \A n \in DOMAIN dequeued : dequeued[n].publish_time = n
    /\ Len(stored) <= Len(dequeued)
    /\ Len(dequeued) <= Len(stored) + 1
    /\ stored = SubSeq(dequeued, 1, Len(stored))

\* C7 witness: two snapshots waited in the queue together and all three
\* snapshots of the run are committed.
C7_Witness ==
    /\ Len(stored) = 3
    /\ market_snapshot_no = 3
    /\ output_queue = <<>>

\* C8 as claimed (its conclusion): no persisted row of available_to_back,
\* available_to_lay or traded_volume has price 0.
C8_NoZeroPriceRow ==
    \A t \in {"available_to_back", "available_to_lay", "traded_volume"} :
       \A r \in Dataset[t] : r.price # 0

\* C9: the dataset holds one market_status row per committed snapshot and as
\* many selection_status rows as the committed snapshots have runners, each
\* snapshot contributing one market_status row and |runners| selection_status
\* rows under its own date_time.
C9_StatusCardinality ==
    /\ Cardinality(Dataset["market_status"]) = Len(stored)
    /\ Cardinality(Dataset["selection_status"]) =
          Cardinality(UNION { { <<n, i>> : i \in DOMAIN stored[n].runners } :
                              n \in DOMAIN stored })
    /\ \A n \in DOMAIN stored :
          /\ Cardinality({r \in Dataset["market_status"] :
                             r.date_time = strftime(stored[n].publish_time)}) = 1
          /\ Cardinality({r \in Dataset["selection_status"] :
                             r.date_time = strftime(stored[n].publish_time)})
                = Len(stored[n].runners)

\* C9 witness: a snapshot of two runners and a snapshot of no runner are
\* committed and the run finished its teardown.
C9_Witness ==
    /\ pc = "done"
    /\ Len(stored) = 2
    /\ Len(stored[1].runners) = 2
    /\ stored[2].runners = <<>>

\* C10: in the persisted dataset no two rows of a table share its PRIMARY KEY.
C10_KeyUniqueness ==
    \A t \in Tables :
       \A r1 \in Dataset[t] : \A r2 \in Dataset[t] :
          PrimaryKey(t, r1) = PrimaryKey(t, r2) => r1 = r2

\* C10 witness: a committed snapshot is followed by a snapshot of the same
\* publish_time, whose market_status insert was refused.
C10_Witness ==
    /\ ExitedBy("error")
    /\ exits[1].at = "market_status"
    /\ Len(stored) = 1
    /\ Len(dequeued) = 2
    /\ dequeued[2].publish_time = dequeued[1].publish_time
    /\ Dataset["available_to_lay"] # {}

\* Indices of the runners of a market book whose selection_id the selections
\* dict does not hold.
Unknown(book) ==
    {i \in DOMAIN book.runners : book.runners[i].selection_id \notin DOMAIN selections}

\* The loop was left by the KeyError of selections[runner.selection_id]: the
\* exception came at the selection_status statement, at the first unknown
\* runner of the last market book, the runners before it being distinct.
LookupFailure ==
    /\ ExitedBy("error")
    /\ exits[1].at = "selection_status"
    /\ LET book == dequeued[Len(dequeued)]
       IN  /\ Unknown(book) # {}
           /\ \A i \in Unknown(book) : \A j1 \in 1..(i - 1) : \A j2 \in 1..(i - 1) :
                 (\A i2 \in Unknown(book) : i <= i2) /\ j1 # j2
                 => book.runners[j1].selection_id # book.runners[j2].selection_id

\* C11: a runner whose selection_id is absent from the directory is never
\* skipped and never given a row: the loop body does not pass it, no committed
\* snapshot holds such a runner, and no snapshot is dequeued after one that
\* does.  When the lookup fails, the failure leaves the controller (no
\* teardown runs), and no row of the failing snapshot is committed, neither
\* its market_status row nor the rows of the runners before the unknown one:
\* the dataset is the rows of the snapshots committed before it.
C11_LookupFailure ==
    /\ \A n \in DOMAIN stored : Unknown(stored[n]) = {}
    /\ \A k \in DOMAIN dequeued :
          (Unknown(dequeued[k]) # {} /\ ~Stops(dequeued[k]))
          => (k = Len(dequeued) /\ Len(stored) < k)
    /\ (pc \in InFlight /\ runner_no > 0) =>
          /\ \A i \in 1..(runner_no - 1) : i \notin Unknown(market_book)
          /\ pc # "selection_status" => runner_no \notin Unknown(market_book)
    /\ LookupFailure =>
          /\ pc = "raised"
          /\ stream = "started"
          /\ connection = "open"
          /\ output_zip_file = <<>>
          /\ output_sqlite_file
          /\ stored = Front(dequeued)
          /\ pending = [t \in Tables |-> {}]
          /\ Dataset = RowsOf(stored)
          /\ \A t \in Tables : \A r \in Dataset[t] :
                r.date_time # strftime(dequeued[Len(dequeued)].publish_time)

\* C11 witness: after one committed snapshot with ladder rows, the second
\* snapshot, of a later publish_time, failed on the lookup of its second
\* runner, a third of its rows inserted by then.
C11_Witness ==
    /\ LookupFailure
    /\ pc = "raised"
    /\ Len(stored) = 1
    /\ Dataset["available_to_back"] # {}
    /\ Len(dequeued[2].runners) = 2
    /\ Unknown(dequeued[2]) = {2}
    /\ dequeued[2].publish_time > dequeued[1].publish_time

\* A level the sink is to skip: no price, no size, or a negative one.
Malformed(level) ==
    \/ level.price = None
    \/ level.size = None
    \/ level.price < 0
    \/ level.size < 0

\* The rows of a market book without those of its malformed levels.
WellFormedRows(book, facet) ==
    UNION { { [date_time |-> strftime(book.publish_time),
               selection |-> selections[book.runners[i].selection_id],
               price |-> Fmt2(book.runners[i].ex[facet][j].price),
               size |-> Fmt2(book.runners[i].ex[facet][j].size)] :
              j \in {j2 \in DOMAIN book.runners[i].ex[facet] :
                         /\ ~Malformed(book.runners[i].ex[facet][j2])
                         /\ book.runners[i].ex[facet][j2].price # 0} } :
            i \in DOMAIN book.runners }

\* C12 as claimed: a ladder entry with a missing size, a missing price or a
\* negative price or size never aborts the run, and only that level is
\* skipped: the committed ladder rows are exactly the well-formed levels of
\* the committed snapshots.
C12_MalformedLevelSkipped ==
    /\ \A n \in DOMAIN exits : exits[n].how # "error"
    /\ \A n \in 1..Len(Facets) :
          Dataset[Facets[n]] =
              UNION { WellFormedRows(stored[k], Facets[n]) : k \in DOMAIN stored }

\* A ladder of the market book holds the same stored price twice for one
\* runner, every runner up to that one being in the selections dict.
SamePriceTwice(book) ==
    \E i \in DOMAIN book.runners : \E n \in 1..Len(Facets) :
       LET ladder == book.runners[i].ex[Facets[n]]
       IN  /\ \A i2 \in 1..i : i2 \notin Unknown(book)
           /\ \E j1 \in DOMAIN ladder : \E j2 \in DOMAIN ladder :
                 /\ j1 < j2
                 /\ ladder[j1].price # 0
                 /\ ladder[j2].price # 0
                 /\ ~Malformed(ladder[j1])
                 /\ ~Malformed(ladder[j2])
                 /\ Fmt2(ladder[j1].price) = Fmt2(ladder[j2].price)

\* The loop was left by an exception of an INSERT.
WriteFailure == ExitedBy("error") /\ ~LookupFailure

\* C13: when an insert fails in the middle of a snapshot the run ends there:
\* the controller takes no further step and dequeues nothing more, no row of
\* the failing snapshot is committed, and the dataset is the one the last
\* committed snapshot left.  A snapshot with the same price twice in one
\* ladder of a runner is such a snapshot: it is never committed and nothing is
\* dequeued after it.
C13_WriteFailure ==
    /\ \A k \in DOMAIN dequeued :
          (SamePriceTwice(dequeued[k]) /\ ~Stops(dequeued[k]))
          => (k = Len(dequeued) /\ Len(stored) < k)
    /\ WriteFailure =>
          /\ pc = "raised"
          /\ ~ENABLED Pipeline
          /\ Len(dequeued) = Len(stored) + 1
          /\ stored = Front(dequeued)
          /\ pending = [t \in Tables |-> {}]
          /\ Dataset = RowsOf(stored)

\* C13 witness: one snapshot with ladder rows is committed; the second one,
\* of a later publish_time, has price 2.00 twice in a back ladder and failed
\* at that insert, its market_status, selection_status and first back row
\* inserted by then.
C13_Witness ==
    /\ WriteFailure
    /\ exits[1].at = "available_to_back"
    /\ Len(stored) = 1
    /\ Dataset["available_to_lay"] # {}
    /\ dequeued[2].runners = <<Runner(11, QuoteDup)>>
    /\ dequeued[2].publish_time > dequeued[1].publish_time

\* C14: the wait before the stream is entered only with a start delay
\* configured, an interrupt can be taken at each of its polls, and a run an
\* interrupt ends there never reaches the stream: the process is over, no
\* subscription was made, no queue filled, no dataset file created, no row
\* written, no archive produced.
C14_InterruptWhileWaiting ==
    /\ pc = "wait" => (mins_before_start # None /\ ENABLED WaitInterrupt)
    /\ (exits # <<>> /\ exits[1].at = "wait") =>
          /\ pc = "exited"
          /\ ~ENABLED WaitNext
          /\ Len(exits) = 1
          /\ stream = "none"
          /\ connection = "none"
          /\ output_queue = <<>>
          /\ dequeued = <<>>
          /\ stored = <<>>
          /\ ~output_sqlite_file
          /\ output_zip_file = <<>>
          /\ committed = [t \in Tables |-> {}]
          /\ pending = [t \in Tables |-> {}]

\* C14 witness: with a delay of one minute the interrupt came at the poll at
\* which exactly one minute was left, the last poll that still waits.
C14_Witness ==
    /\ pc = "exited"
    /\ ExitedBy("interrupt")
    /\ exits[1].at = "wait"
    /\ mins_before_start = 1
    /\ market_start_time - now = timedelta(mins_before_start)

\* ------------------------------------------------ claims on the converter
KeyOfRow(row) == <<row.date_time, row.selection, row.price>>

\* The (date_time, selection, price) keys of one loaded ladder table.
FacetKeys(md, facet) == { KeyOfRow(md[facet][n]) : n \in DOMAIN md[facet] }

PriceKeys(md) == UNION { FacetKeys(md, Facets[n]) : n \in 1..Len(Facets) }

\* No two rows of a loaded table share the key of the table.
KeysUnique(md) ==
    \A t \in Tables : \A n1 \in DOMAIN md[t] : \A n2 \in DOMAIN md[t] :
       LET k1 == PrimaryKey(t, md[t][n1])
           k2 == PrimaryKey(t, md[t][n2])
       IN  k1 = k2 => n1 = n2

\* The steps of merge_market_data after the three ladder tables are merged.
AfterOuterMerges ==
    {"merge_selection_status", "merge_market_status", "sort_values", "merged"}

\* C15: with key-unique facet tables, once available_to_back, available_to_lay
\* and traded_volume are merged the table has exactly one row for every
\* (date_time, selection, price) key that occurs in at least one of them, and
\* no row of any other key; the status joins and the sort keep it so.
C15_MergeKeyCoverage ==
    (pc \in AfterOuterMerges /\ KeysUnique(market_data)) =>
       /\ { KeyOfRow(data[n]) : n \in DOMAIN data } = PriceKeys(market_data)
       /\ Len(data) = Cardinality(PriceKeys(market_data))

\* C15 witness: the merge is finished for tables in which one key is held by
\* available_to_back only, one by available_to_lay only, one by traded_volume
\* only and one by two tables.
C15_Witness ==
    /\ pc = "merged"
    /\ \E k \in FacetKeys(market_data, "available_to_back") :
          /\ k \notin FacetKeys(market_data, "available_to_lay")
          /\ k \notin FacetKeys(market_data, "traded_volume")
    /\ \E k \in FacetKeys(market_data, "available_to_lay") :
          /\ k \notin FacetKeys(market_data, "available_to_back")
          /\ k \notin FacetKeys(market_data, "traded_volume")
    /\ \E k \in FacetKeys(market_data, "traded_volume") :
          /\ k \notin FacetKeys(market_data, "available_to_back")
          /\ k \notin FacetKeys(market_data, "available_to_lay")
    /\ FacetKeys(market_data, "available_to_back")
          \cap FacetKeys(market_data, "available_to_lay") # {}

\* The value the column of a ladder table must have in a merged row: the size
\* of the row of the table at the key of the merged row, null without one.
SizeAt(md, facet, row) ==
    IF KeyOfRow(row) \in FacetKeys(md, facet)
    THEN LET n == CHOOSE n2 \in DOMAIN md[facet] :
                      KeyOfRow(md[facet][n2]) = KeyOfRow(row)
         IN  md[facet][n].size
    ELSE None

\* C16: in every row of the merged table back_size, lay_size and traded_size
\* are the size of the available_to_back, available_to_lay and traded_volume
\* row at the key of the row when there is one, and null otherwise; a missing
\* value is never made 0 and a size of 0 is never made null.
C16_MergeCompleteness ==
    (pc \in AfterOuterMerges /\ KeysUnique(market_data)) =>
       \A n \in DOMAIN data :
          /\ data[n].back_size = SizeAt(market_data, "available_to_back", data[n])
          /\ data[n].lay_size = SizeAt(market_data, "available_to_lay", data[n])
          /\ data[n].traded_size = SizeAt(market_data, "traded_volume", data[n])

\* C16 witness: a merged row with back_size 0, no lay_size and traded_size 0,
\* beside a row with a back_size and no traded_size.
C16_Witness ==
    /\ pc = "merged"
    /\ \E n \in DOMAIN data :
          /\ data[n].back_size = 0
          /\ data[n].lay_size = None
          /\ data[n].traded_size = 0
    /\ \E n \in DOMAIN data :
          /\ data[n].back_size \notin {0, None}
          /\ data[n].traded_size = None

\* The selection_status rows of a price row, and its market_status rows.
SelectionStatusOf(md, row) ==
    { md.selection_status[n] : n \in
        {n2 \in DOMAIN md.selection_status :
            /\ md.selection_status[n2].date_time = row.date_time
            /\ md.selection_status[n2].selection = row.selection} }

MarketStatusOf(md, row) ==
    { md.market_status[n] : n \in
        {n2 \in DOMAIN md.market_status :
            md.market_status[n2].date_time = row.date_time} }

\* C17: the two status joins drop and add no price row: each keeps the number
\* of rows and every row with the values it had, and gives it the status of its
\* (date_time, selection), respectively the status and in-play flag of its
\* date_time, or nulls when the status table has no such row.
C17_StatusJoinsKeepRows ==
    [][ (pc \in {"merge_selection_status", "merge_market_status"}
         /\ KeysUnique(market_data)) =>
           /\ Len(data') = Len(data)
           /\ \A n \in DOMAIN data :
                 /\ \A c \in DOMAIN data[n] : data'[n][c] = data[n][c]
                 /\ pc = "merge_selection_status" =>
                       IF SelectionStatusOf(market_data, data[n]) = {}
                       THEN data'[n].selection_status = NaN("selection_status")
                       ELSE \E r \in SelectionStatusOf(market_data, data[n]) :
                               data'[n].selection_status = r.status
                 /\ pc = "merge_market_status" =>
                       IF MarketStatusOf(market_data, data[n]) = {}
                       THEN /\ data'[n].market_status = NaN("market_status")
                            /\ data'[n].inplay = NaN("inplay")
                       ELSE \E r \in MarketStatusOf(market_data, data[n]) :
                               /\ data'[n].market_status = r.status
                               /\ data'[n].inplay = r.inplay ]_vars

\* C17 witness: the merged table holds a price row with a selection status and
\* no market status, and a price row with a market status and no selection
\* status.
C17_Witness ==
    /\ pc = "merged"
    /\ \E n \in DOMAIN data :
          /\ data[n].selection_status # NaN("selection_status")
          /\ data[n].market_status = NaN("market_status")
          /\ data[n].inplay = NaN("inplay")
    /\ \E n \in DOMAIN data :
          /\ data[n].selection_status = NaN("selection_status")
          /\ data[n].market_status # NaN("market_status")

\* C18: the merged table is in ascending order of date_time, then selection,
\* then price, and it is the same table for every order in which the rows of
\* the archive can be loaded.
C18_MergeSortOrder ==
    pc = "merged" =>
       /\ \A n \in 1..(Len(data) - 1) :
             \/ data[n].date_time < data[n + 1].date_time
             \/ /\ data[n].date_time = data[n + 1].date_time
                /\ Ord(data[n].selection) < Ord(data[n + 1].selection)
             \/ /\ data[n].date_time = data[n + 1].date_time
                /\ data[n].selection = data[n + 1].selection
                /\ data[n].price < data[n + 1].price
       /\ \A other \in load_market_data(output_zip_file[1]) :
             merge_market_data(other) = data

\* C18 witness: a merged table of four rows made from an available_to_back
\* table loaded in descending order of its keys.
C18_Witness ==
    /\ pc = "merged"
    /\ Len(data) = 4
    /\ Len(market_data.available_to_back) = 3
    /\ \A n \in 1..2 :
          Less(market_data.available_to_back[n + 1],
               market_data.available_to_back[n], PriceKey)

\* ------------------------------------------------ claims on the recorder
\* A stop snapshot waits in output_queue.
StopQueued == \E n \in DOMAIN output_queue : Stops(output_queue[n])

\* The run is over, by a stop snapshot that left no row, or by an interrupt.
StoppedAndTornDown ==
    /\ pc = "done"
    /\ stream = "stopped"
    /\ connection = "closed"
    /\ ~output_sqlite_file
    /\ \/ ExitedBy("interrupt")
       \/ /\ ExitedBy("stop")
          /\ Stops(dequeued[Len(dequeued)])
          /\ stored = Front(dequeued)
          /\ output_zip_file = <<RowsOf(Front(dequeued))>>
          /\ \A t \in Tables : \A r \in Dataset[t] :
                r.date_time # strftime(dequeued[Len(dequeued)].publish_time)

\* C19: in a run without lookup or write failure, once a stop snapshot is in
\* the stream the controller eventually dequeues it, leaves the loop and
\* completes the teardown, the stop snapshot having produced no row (unless an
\* interrupt ends the run before, which also completes the teardown).
C19_EventualStop == StopQueued ~> StoppedAndTornDown

\* C19 witness: a stop snapshot waited in the queue behind a snapshot that was
\* committed, was dequeued in its turn, and the teardown is complete.
C19_Witness ==
    /\ pc = "done"
    /\ ExitedBy("stop")
    /\ market_snapshot_no = 1
    /\ Len(dequeued) = 2
    /\ dequeued[2].status = "OPEN"
    /\ Stops(dequeued[2])
    /\ output_zip_file = <<RowsOf(<<dequeued[1]>>)>>

\* The order of the statements after the loop.
TeardownOrder ==
    { <<"stop_stream", "close">>, <<"close", "zip">>,
      <<"zip", "remove">>, <<"remove", "done">> }

\* C20: once the loop is left no step dequeues, inserts or commits, whatever
\* the producer still enqueues, and the controller stays in the teardown,
\* whose steps come in one order: the stream is stopped, then the connection
\* closed, then the archive written from the closed file, then the file
\* removed, the archive being there.
C20_StoppedTerminal ==
    [][ (pc \in Teardown) =>
           /\ pc' = pc \/ <<pc, pc'>> \in TeardownOrder
           /\ dequeued' = dequeued
           /\ stored' = stored
           /\ market_snapshot_no' = market_snapshot_no
           /\ market_book' = market_book
           /\ \A t \in Tables : pending'[t] \subseteq pending[t]
           /\ \A n \in DOMAIN output_queue : output_queue'[n] = output_queue[n]
           /\ stream' # stream =>
                 (pc = "stop_stream" /\ stream' = "stopped")
           /\ connection' # connection =>
                 (pc = "close" /\ stream = "stopped" /\ connection' = "closed")
           /\ output_zip_file' # output_zip_file =>
                 (pc = "zip" /\ connection = "closed"
                  /\ output_zip_file' = <<committed>>)
           /\ output_sqlite_file' # output_sqlite_file =>
                 (pc = "remove" /\ output_zip_file # <<>> /\ ~output_sqlite_file')
           /\ committed' # committed => pc = "remove" ]_vars

\* C20 witness: the first snapshot stopped the stream, the producer enqueued
\* another snapshot after the loop was left (the queue holds more than it could
\* beside the first one), and the teardown is complete.
C20_Witness ==
    /\ pc = "done"
    /\ ExitedBy("stop")
    /\ Len(dequeued) = 1
    /\ Len(output_queue) = MaxQueue
    /\ stream = "stopped"
    /\ connection = "closed"
    /\ output_zip_file # <<>>
    /\ ~output_sqlite_file

\* C21: market_snapshot_no starts at 0; a step changes it only by adding
\* exactly 1, and only at the statement after a commit that succeeded, so it
\* never decreases; at the top of the loop it is the number of committed
\* snapshots, and it is never more than that number: a snapshot that was
\* discarded by the stop check, interrupted or failed does not count.
C21_SnapshotCounter ==
    /\ market_snapshot_no = 0
    /\ [](/\ pc = "get" => market_snapshot_no = Len(stored)
          /\ market_snapshot_no <= Len(stored)
          /\ Len(stored) <= market_snapshot_no + 1
          /\ Len(stored) = market_snapshot_no + 1 =>
                (pc = "count" \/ (exits # <<>> /\ exits[1].at = "count")))
    /\ [][ market_snapshot_no' # market_snapshot_no =>
              /\ market_snapshot_no' = market_snapshot_no + 1
              /\ pc = "count"
              /\ Len(stored) = market_snapshot_no'
              /\ stored' = stored ]_vars

\* C21 witness: one snapshot was committed and counted, and the second one
\* failed on an insert: the counter is 1 for two dequeued snapshots.
C21_Witness ==
    /\ pc = "raised"
    /\ ExitedBy("error")
    /\ Len(dequeued) = 2
    /\ Len(stored) = 1
    /\ market_snapshot_no = 1

\* C22 as claimed: with a lead time configured, a poll of the wait at which
\* now is earlier than market_start_time minus the lead time stays in the
\* wait (or is interrupted), and a poll at which now has reached it
\* (now >= market_start_time - lead time) leaves the wait for the stream; with
\* no lead time configured the wait is never entered.
C22_WaitingExitCondition ==
    [][ /\ (mins_before_start = None) => pc' # "wait"
        /\ (pc = "wait" /\ now < market_start_time - timedelta(mins_before_start))
              => pc' \in {"wait", "exited"}
        /\ (pc = "wait" /\ now >= market_start_time - timedelta(mins_before_start))
              => pc' \in {"subscribe", "exited"} ]_vars

\* The controller stands in output_queue.get() and the queue is empty.
Blocked == pc = "get" /\ output_queue = <<>>

\* C23: the loop is left only by a stop snapshot (into the teardown), by an
\* interrupt (into the teardown) or by an exception of a lookup or an insert
\* (out of the function).  While the queue is empty the controller has no step
\* of its own: it stays in the dequeue, without reaching the teardown, until a
\* market book is delivered or an interrupt arrives, for ever if neither does.
C23_ExitsFromStreaming ==
    /\ [](/\ pc \in TryBlock => exits = <<>>
          /\ pc \in Teardown =>
                /\ Len(exits) = 1
                /\ exits[1].how \in {"stop", "interrupt"}
                /\ exits[1].how = "stop" =>
                      (exits[1].at = "get" /\ Stops(dequeued[Len(dequeued)]))
          /\ pc = "raised" =>
                /\ ExitedBy("error")
                /\ exits[1].at \in InFlight \ {"commit"}
          /\ Blocked => ~ENABLED Controller)
    /\ [][ Blocked =>
              \/ /\ pc' = "get"
                 /\ dequeued' = dequeued
                 /\ exits' = exits
              \/ /\ pc' = "stop_stream"
                 /\ dequeued' = dequeued
                 /\ exits' = <<[how |-> "interrupt", at |-> "get"]>> ]_vars

\* C23 witness: the producer delivered all the market books it ever will, none
\* of them a stop snapshot, all are committed, and the controller waits in the
\* dequeue with the loop not left.
C23_Witness ==
    /\ Blocked
    /\ exits = <<>>
    /\ stream = "started"
    /\ Len(dequeued) = MaxSinkSnapshots
    /\ Len(stored) = MaxSinkSnapshots
    /\ \A n \in DOMAIN dequeued : ~Stops(dequeued[n])

\* Snapshot k and the one before it carry the same publish_time and neither
\* is a stop snapshot.
EqualPublishTimes(k) ==
    /\ k \in 2..Len(dequeued)
    /\ dequeued[k].publish_time = dequeued[k - 1].publish_time
    /\ ~Stops(dequeued[k - 1])
    /\ ~Stops(dequeued[k])

\* C24: when two consecutive snapshots that are not stop snapshots carry the
\* same publish_time, the second one gets no further than its market_status
\* insert: that insert breaks the PRIMARY KEY of market_status, the exception
\* leaves the function (stream not stopped, connection not closed, no archive),
\* nothing is dequeued after it and none of its rows is committed, the dataset
\* staying the rows of the snapshots before it.
C24_EqualPublishTimes ==
    \A k \in DOMAIN dequeued :
       EqualPublishTimes(k) =>
          /\ k = Len(dequeued)
          /\ stored = SubSeq(dequeued, 1, k - 1)
          /\ Dataset = RowsOf(SubSeq(dequeued, 1, k - 1))
          /\ pending = [t \in Tables |-> {}]
          /\ pc \in {"market_status", "raised"} \cup Teardown
          /\ pc \in Teardown =>
                (ExitedBy("interrupt") /\ exits[1].at = "market_status")
          /\ pc = "market_status" => ~ENABLED Commit
          /\ pc = "raised" =>
                /\ exits = <<[how |-> "error", at |-> "market_status"]>>
                /\ stream = "started"
                /\ connection = "open"
                /\ output_sqlite_file
                /\ output_zip_file = <<>>

\* C24 witness: a committed snapshot of two runners is followed by a snapshot
\* of one runner with the same publish_time, whose market_status insert was
\* refused: the run is over with the stream and the connection left open.
C24_Witness ==
    /\ EqualPublishTimes(2)
    /\ pc = "raised"
    /\ Len(dequeued[1].runners) = 2
    /\ Len(dequeued[2].runners) = 1
    /\ Dataset["selection_status"] # {}
    /\ stream = "started"
    /\ connection = "open"

\* The selection_status rows of the loaded tables whose (date_time, selection)
\* no ladder table holds, and the market_status rows whose date_time none holds.
StatusOnlySelections(md) ==
    { md.selection_status[n] : n \in
        {n2 \in DOMAIN md.selection_status :
            \A k \in PriceKeys(md) :
               <<k[1], k[2]>> # <<md.selection_status[n2].date_time,
                                  md.selection_status[n2].selection>>} }

StatusOnlyMarkets(md) ==
    { md.market_status[n] : n \in
        {n2 \in DOMAIN md.market_status :
            \A k \in PriceKeys(md) : k[1] # md.market_status[n2].date_time} }

\* C25: a market_status row whose date_time has no price row, and a
\* selection_status row whose (date_time, selection) has no price row, give
\* the merged table no row: no row of it carries that date_time, respectively
\* that (date_time, selection), and the table has as many rows as there are
\* price keys.
C25_StatusOnlyTicks ==
    pc \in {"sort_values", "merged"} =>
       /\ \A r \in StatusOnlyMarkets(market_data) :
             \A n \in DOMAIN data : data[n].date_time # r.date_time
       /\ \A r \in StatusOnlySelections(market_data) :
             \A n \in DOMAIN data :
                ~(data[n].date_time = r.date_time /\ data[n].selection = r.selection)
       /\ Len(data) = Cardinality(PriceKeys(market_data))

\* C25 witness: the merged table has rows, made from tables with a
\* market_status row of a tick without price row and a selection_status row of
\* a runner without price row at its tick, beside a market_status row that a
\* price row took.
C25_Witness ==
    /\ pc = "merged"
    /\ data # <<>>
    /\ StatusOnlyMarkets(market_data) # {}
    /\ StatusOnlySelections(market_data) # {}
    /\ \E n \in DOMAIN data : data[n].market_status # NaN("market_status")

====
